---- MODULE Spec2Model ----
\* Robot Operation Manager (src/app.py): a Streamlit script over three
\* PostgreSQL tables.  Every browser session re-runs the script top to bottom;
\* each get_df / run_query is its own committed transaction, so the steps of
\* different sessions interleave between a page's read and its write.
EXTENDS Integers, Sequences, FiniteSets, TLC

\* ------------------------------------------------------------------ bounds
NumSessions == 2
MaxRobots == 2
MaxOperators == 2
MaxBookings == 2
MaxTime == 2

Sessions == 1..NumSessions
\* start and end of a booking, in whole seconds
Times == 0..MaxTime
\* readings of the wall clock, in half seconds
Clock == 0..(2 * MaxTime + 1)

\* Text that the program inspects character by character (robots.model,
\* operators.qualified_models) is a sequence of one-character strings; text it
\* only stores and compares (names, roles, projects) is a string.

\* Inputs the sessions type into the forms of the interleaved program (Spec):
\* two robot names (and the empty box), one model, one operator name, one of
\* the two roles of the role select box, one project.
RobotNames == {"", "Unit-01", "Unit-02"}
ModelNames == {<<"S">>}
OperatorNames == {"", "Alice"}
Roles == {"Senior Engineer"}
Projects == {"SiteA"}
Passwords == {"admin", "guess"}

\* Wider texts for the page computations on a fixed store (SpecFn): no model,
\* a model that is a prefix of another one, and a lower-case spelling.
FnModelNames == {<<>>, <<"S">>, <<"S", "M">>, <<"s">>}
FnSkillNames == {<<"S">>, <<"S", "M">>, <<"s">>}
FnOperatorNames == {"Alice", "Bob"}

ADMIN_PASSWORD == "admin"

\* ------------------------------------------------------------------- state
VARIABLES
    robots,             \* table robots: set of rows
    operators,          \* table operators
    schedule,           \* table schedule
    robots_id_seq,      \* last value of the SERIAL sequence of robots.id
    operators_id_seq,
    schedule_id_seq,
    password_correct,   \* st.session_state["password_correct"], per session
    run,                \* per session: where its script run stands
    out                 \* result of the last read-only computation

vars == <<robots, operators, schedule, robots_id_seq, operators_id_seq,
          schedule_id_seq, password_correct, run, out>>

store == <<robots, operators, schedule>>
seqs == <<robots_id_seq, operators_id_seq, schedule_id_seq>>

\* ---------------------------------------------------------------- messages
MsgInvalidInterval == "End time must be after start time."
MsgSaved == "Schedule Saved!"
MsgInsertError == "IntegrityError"
MsgRobotDeleted == "Robot Deleted"
MsgCannotDelete == "Cannot delete: This robot has existing schedule history."
MsgBookingDeleted == "Deleted booking ID"
MsgNoRobots == "No robots available."
MsgNoOperators == "No operators trained on model."
MsgNoBookings == "No bookings to manage."

Idle ==
    [pc |-> "idle", r_to_del |-> "", booking_id |-> 0, robot_id |-> 0,
     operator_id |-> 0, msg |-> ""]

Shown(m) == [Idle EXCEPT !.pc = "done", !.msg = m]

\* ------------------------------------------------------------ pure helpers
Ids(rows) == {row.id : row \in rows}

\* ",".join(o_skills)
RECURSIVE join(_, _)
join(sep, parts) ==
    IF parts = <<>> THEN <<>>
    ELSE IF Len(parts) = 1 THEN parts[1]
    ELSE parts[1] \o sep \o join(sep, Tail(parts))

\* (variant) the skills text compared whole instead of searched
str_equals(hay, pat) == hay = pat

\* Series.str.contains(pat, regex=False): pat occurs in hay as a substring
str_contains(hay, pat) ==
    \E i \in 1..(Len(hay) - Len(pat) + 1) :
        SubSeq(hay, i, i + Len(pat) - 1) = pat

\* (variant) the skills filter left out: every operator is offered
valid_ops_unfiltered(all_ops, selected_robot_model) == all_ops

\* all_ops[all_ops['qualified_models'].fillna('').str.contains(model, regex=False)];
\* an empty roster gives the empty frame
valid_ops(all_ops, selected_robot_model) ==
    IF all_ops # {}
    THEN {o \in all_ops : str_contains(o.qualified_models, selected_robot_model)}
    ELSE {}

\* SELECT s.id, r.name, o.name, ... FROM schedule s JOIN robots r JOIN operators o
JoinRows(rs, os, ss) ==
    {[id |-> e.id, robot |-> r.name, operator |-> o.name,
      project_name |-> e.project_name, start_time |-> e.start_time,
      end_time |-> e.end_time] :
        <<e, r, o>> \in {t \in ss \X rs \X os :
                            t[1].robot_id = t[2].id /\ t[1].operator_id = t[3].id}}

\* ---------------------------------------------------------------- the gate
\* (variant) any entered password opens the gate
check_password_entered(s) == password_correct[s] # "absent"

\* check_password(): True only once password_correct is True
check_password(s) == password_correct[s] = "True"

\* on_change callback of the password box, shown while check_password is False
password_entered(s, pw) ==
    /\ ~check_password(s)
    /\ password_correct' =
         [password_correct EXCEPT ![s] = IF pw = ADMIN_PASSWORD THEN "True" ELSE "False"]
    /\ UNCHANGED <<store, seqs, run, out>>

\* ------------------------------------------------------------ Manage Robots
AddRobot(s, r_name, r_model) ==
    /\ check_password(s)
    /\ r_name # ""
    /\ robots_id_seq < MaxRobots
    /\ robots_id_seq' = robots_id_seq + 1
    /\ robots' = robots \cup
         {[id |-> robots_id_seq + 1, name |-> r_name, model |-> r_model,
           status |-> "Available"]}
    /\ run' = [run EXCEPT ![s] = Idle]
    /\ UNCHANGED <<operators, schedule, operators_id_seq, schedule_id_seq,
                   password_correct, out>>

\* all_robots = get_df(...); r_to_del = st.selectbox(..., all_robots['name'])
RenderManageRobots(s) ==
    /\ check_password(s)
    /\ robots # {}
    /\ \E r \in robots :
         run' = [run EXCEPT ![s] = [Idle EXCEPT !.pc = "robots", !.r_to_del = r.name]]
    /\ UNCHANGED <<store, seqs, password_correct, out>>

\* (variant) row-by-row delete: the referenced rows stay, the others go
DeleteRobot_SkipReferenced(s) ==
    /\ check_password(s)
    /\ run[s].pc = "robots"
    /\ LET victims == {r \in robots : r.name = run[s].r_to_del}
           free == {r \in victims : \A e \in schedule : e.robot_id # r.id}
       IN  /\ robots' = robots \ free
           /\ run' = [run EXCEPT ![s] =
                      IF free = {} /\ victims # {} THEN Shown(MsgCannotDelete)
                      ELSE Shown(MsgRobotDeleted)]
    /\ UNCHANGED <<operators, schedule, seqs, password_correct, out>>

\* DELETE FROM robots WHERE name = :name, under FOREIGN KEY(robot_id)
DeleteRobot(s) ==
    /\ check_password(s)
    /\ run[s].pc = "robots"
    /\ LET victims == {r \in robots : r.name = run[s].r_to_del}
       IN  IF \E e \in schedule : e.robot_id \in Ids(victims)
           THEN /\ robots' = robots
                /\ run' = [run EXCEPT ![s] = Shown(MsgCannotDelete)]
           ELSE /\ robots' = robots \ victims
                /\ run' = [run EXCEPT ![s] = Shown(MsgRobotDeleted)]
    /\ UNCHANGED <<operators, schedule, seqs, password_correct, out>>

\* --------------------------------------------------------- Manage Operators
\* existing_models: SELECT DISTINCT model FROM robots
existing_models == {r.model : r \in robots}

\* st.multiselect: the chosen options, each once, in the order chosen
Selections(options) ==
    {sel \in UNION {[1..n -> options] : n \in 0..Cardinality(options)} :
        \A i, j \in DOMAIN sel : i # j => sel[i] # sel[j]}

\* (variant) an operator of the same name is replaced by the new row
AddOperator_ReplaceSameName(s, o_name, o_role, o_skills) ==
    /\ check_password(s)
    /\ o_name # ""
    /\ operators_id_seq < MaxOperators
    /\ operators_id_seq' = operators_id_seq + 1
    /\ operators' = {o \in operators : o.name # o_name} \cup
         {[id |-> operators_id_seq + 1, name |-> o_name, role |-> o_role,
           qualified_models |-> join(<<",">>, o_skills)]}
    /\ run' = [run EXCEPT ![s] = Idle]
    /\ UNCHANGED <<robots, schedule, robots_id_seq, schedule_id_seq,
                   password_correct, out>>

\* The options (line 184) and the insert (line 195) are read and written in one
\* step: skills naming a model whose robots are gone are reachable either way.
AddOperator(s, o_name, o_role, o_skills) ==
    /\ check_password(s)
    /\ o_name # ""
    /\ operators_id_seq < MaxOperators
    /\ operators_id_seq' = operators_id_seq + 1
    /\ operators' = operators \cup
         {[id |-> operators_id_seq + 1, name |-> o_name, role |-> o_role,
           qualified_models |-> join(<<",">>, o_skills)]}
    /\ run' = [run EXCEPT ![s] = Idle]
    /\ UNCHANGED <<robots, schedule, robots_id_seq, schedule_id_seq,
                   password_correct, out>>

\* ---------------------------------------------------------- Manage Bookings
RenderManageBookings(s) ==
    /\ check_password(s)
    /\ LET df == JoinRows(robots, operators, schedule)
       IN  IF df # {}
           THEN \E row \in df :
                  run' = [run EXCEPT ![s] =
                            [Idle EXCEPT !.pc = "bookings", !.booking_id = row.id]]
           ELSE run' = [run EXCEPT ![s] = Shown(MsgNoBookings)]
    /\ UNCHANGED <<store, seqs, password_correct, out>>

\* (variant) DELETE ... WHERE robot_id = that of the selected booking
DeleteBooking_SameRobot(s) ==
    /\ check_password(s)
    /\ run[s].pc = "bookings"
    /\ schedule' = {e \in schedule :
                      \A k \in schedule : k.id = run[s].booking_id => e.robot_id # k.robot_id}
    /\ run' = [run EXCEPT ![s] = Shown(MsgBookingDeleted)]
    /\ UNCHANGED <<robots, operators, seqs, password_correct, out>>

\* DELETE FROM schedule WHERE id = :id
DeleteBooking(s) ==
    /\ check_password(s)
    /\ run[s].pc = "bookings"
    /\ schedule' = {e \in schedule : e.id # run[s].booking_id}
    /\ run' = [run EXCEPT ![s] = Shown(MsgBookingDeleted)]
    /\ UNCHANGED <<robots, operators, seqs, password_correct, out>>

\* ----------------------------------------------------------- Create Booking
\* robots[robots['name'] == selected_robot_name].iloc[0]: SELECT * has no
\* ORDER BY, so the first match is any row of that name
FirstMatch(rs, selected_robot_name) == {r \in rs : r.name = selected_robot_name}

\* (variant) the name-to-id map built from the whole roster
op_map_all_ops(ops, selected_op_name) ==
    {o.id : o \in {p \in operators : p.name = selected_op_name}}

\* dict(zip(valid_ops['name'], valid_ops['id']))[selected_op_name]: one of the
\* listed operators of that name (the one the frame lists last)
op_map(ops, selected_op_name) == {o.id : o \in {p \in ops : p.name = selected_op_name}}

\* The page down to the form: the two frames (lines 205 and 213) are read in
\* one step.  Rows never change and operators are never deleted, so a robot
\* deleted between the two reads only makes the later insert fail, as in
\* CreateBooking.  Model and id (lines 210 and 237) come from the same row.
RenderCreateBooking(s) ==
    /\ check_password(s)
    /\ IF robots = {}
       THEN run' = [run EXCEPT ![s] = Shown(MsgNoRobots)]
       ELSE \E picked \in robots : \E row \in FirstMatch(robots, picked.name) :
              LET ops == valid_ops(operators, row.model)
              IN  IF ops = {}
                  THEN run' = [run EXCEPT ![s] = Shown(MsgNoOperators)]
                  ELSE \E o \in ops : \E oid \in op_map(ops, o.name) :
                         run' = [run EXCEPT ![s] =
                                   [Idle EXCEPT !.pc = "form", !.robot_id = row.id,
                                                !.operator_id = oid]]
    /\ UNCHANGED <<store, seqs, password_correct, out>>

\* (variant) the new id is the largest id in the table plus one
CreateBooking_MaxIdPlusOne(s, start_dt, end_dt, project) ==
    /\ check_password(s)
    /\ run[s].pc = "form"
    /\ IF end_dt <= start_dt
       THEN /\ run' = [run EXCEPT ![s] = Shown(MsgInvalidInterval)]
            /\ UNCHANGED <<schedule, schedule_id_seq>>
       ELSE /\ schedule_id_seq < MaxBookings
            /\ schedule_id_seq' = schedule_id_seq + 1
            /\ IF run[s].robot_id \in Ids(robots) /\ run[s].operator_id \in Ids(operators)
               THEN /\ schedule' = schedule \cup
                         {[id |-> Cardinality({k \in 1..MaxBookings :
                                     \E e \in schedule : e.id >= k}) + 1,
                           robot_id |-> run[s].robot_id,
                           operator_id |-> run[s].operator_id, project_name |-> project,
                           start_time |-> start_dt, end_time |-> end_dt]}
                    /\ run' = [run EXCEPT ![s] = Shown(MsgSaved)]
               ELSE /\ schedule' = schedule
                    /\ run' = [run EXCEPT ![s] = Shown(MsgInsertError)]
    /\ UNCHANGED <<robots, operators, robots_id_seq, operators_id_seq,
                   password_correct, out>>

\* (variant) a booking that overlaps one of the same robot is refused
CreateBooking_RejectOverlap(s, start_dt, end_dt, project) ==
    /\ check_password(s)
    /\ run[s].pc = "form"
    /\ IF \/ end_dt <= start_dt
          \/ \E e \in schedule : /\ e.robot_id = run[s].robot_id
                                  /\ e.start_time <= end_dt /\ start_dt <= e.end_time
       THEN /\ run' = [run EXCEPT ![s] = Shown(MsgInvalidInterval)]
            /\ UNCHANGED <<schedule, schedule_id_seq>>
       ELSE /\ schedule_id_seq < MaxBookings
            /\ schedule_id_seq' = schedule_id_seq + 1
            /\ IF run[s].robot_id \in Ids(robots) /\ run[s].operator_id \in Ids(operators)
               THEN /\ schedule' = schedule \cup
                         {[id |-> schedule_id_seq + 1, robot_id |-> run[s].robot_id,
                           operator_id |-> run[s].operator_id, project_name |-> project,
                           start_time |-> start_dt, end_time |-> end_dt]}
                    /\ run' = [run EXCEPT ![s] = Shown(MsgSaved)]
               ELSE /\ schedule' = schedule
                    /\ run' = [run EXCEPT ![s] = Shown(MsgInsertError)]
    /\ UNCHANGED <<robots, operators, robots_id_seq, operators_id_seq,
                   password_correct, out>>

\* (variant) the interval test lets end = start through
CreateBooking_EqualAllowed(s, start_dt, end_dt, project) ==
    /\ check_password(s)
    /\ run[s].pc = "form"
    /\ IF end_dt < start_dt
       THEN /\ run' = [run EXCEPT ![s] = Shown(MsgInvalidInterval)]
            /\ UNCHANGED <<schedule, schedule_id_seq>>
       ELSE /\ schedule_id_seq < MaxBookings
            /\ schedule_id_seq' = schedule_id_seq + 1
            /\ IF run[s].robot_id \in Ids(robots) /\ run[s].operator_id \in Ids(operators)
               THEN /\ schedule' = schedule \cup
                         {[id |-> schedule_id_seq + 1, robot_id |-> run[s].robot_id,
                           operator_id |-> run[s].operator_id, project_name |-> project,
                           start_time |-> start_dt, end_time |-> end_dt]}
                    /\ run' = [run EXCEPT ![s] = Shown(MsgSaved)]
               ELSE /\ schedule' = schedule
                    /\ run' = [run EXCEPT ![s] = Shown(MsgInsertError)]
    /\ UNCHANGED <<robots, operators, robots_id_seq, operators_id_seq,
                   password_correct, out>>

\* (variant) schedule without its FOREIGN KEY constraints
CreateBooking_NoForeignKey(s, start_dt, end_dt, project) ==
    /\ check_password(s)
    /\ run[s].pc = "form"
    /\ IF end_dt <= start_dt
       THEN /\ run' = [run EXCEPT ![s] = Shown(MsgInvalidInterval)]
            /\ UNCHANGED <<schedule, schedule_id_seq>>
       ELSE /\ schedule_id_seq < MaxBookings
            /\ schedule_id_seq' = schedule_id_seq + 1
            /\ schedule' = schedule \cup
                 {[id |-> schedule_id_seq + 1, robot_id |-> run[s].robot_id,
                   operator_id |-> run[s].operator_id, project_name |-> project,
                   start_time |-> start_dt, end_time |-> end_dt]}
            /\ run' = [run EXCEPT ![s] = Shown(MsgSaved)]
    /\ UNCHANGED <<robots, operators, robots_id_seq, operators_id_seq,
                   password_correct, out>>

\* st.form_submit_button("Confirm Schedule").  The SERIAL sequence advances
\* before the FOREIGN KEY check, so a refused insert uses up an id.
CreateBooking(s, start_dt, end_dt, project) ==
    /\ check_password(s)
    /\ run[s].pc = "form"
    /\ IF end_dt <= start_dt
       THEN /\ run' = [run EXCEPT ![s] = Shown(MsgInvalidInterval)]
            /\ UNCHANGED <<schedule, schedule_id_seq>>
       ELSE /\ schedule_id_seq < MaxBookings
            /\ schedule_id_seq' = schedule_id_seq + 1
            /\ IF run[s].robot_id \in Ids(robots) /\ run[s].operator_id \in Ids(operators)
               THEN /\ schedule' = schedule \cup
                         {[id |-> schedule_id_seq + 1, robot_id |-> run[s].robot_id,
                           operator_id |-> run[s].operator_id, project_name |-> project,
                           start_time |-> start_dt, end_time |-> end_dt]}
                    /\ run' = [run EXCEPT ![s] = Shown(MsgSaved)]
               ELSE /\ schedule' = schedule
                    /\ run' = [run EXCEPT ![s] = Shown(MsgInsertError)]
    /\ UNCHANGED <<robots, operators, robots_id_seq, operators_id_seq,
                   password_correct, out>>

\* ------------------------------------------------------------ specification
NoOut == [op |-> "none"]

Init ==
    /\ robots = {}
    /\ operators = {}
    /\ schedule = {}
    /\ robots_id_seq = 0
    /\ operators_id_seq = 0
    /\ schedule_id_seq = 0
    /\ password_correct = [s \in Sessions |-> "absent"]
    /\ run = [s \in Sessions |-> Idle]
    /\ out = NoOut

Next ==
    \E s \in Sessions :
        \/ \E pw \in Passwords : password_entered(s, pw)
        \/ \E r_name \in RobotNames, r_model \in ModelNames : AddRobot(s, r_name, r_model)
        \/ RenderManageRobots(s)
        \/ DeleteRobot(s)
        \/ \E o_name \in OperatorNames, o_role \in Roles :
             \E o_skills \in Selections(existing_models) :
               AddOperator(s, o_name, o_role, o_skills)
        \/ RenderManageBookings(s)
        \/ DeleteBooking(s)
        \/ RenderCreateBooking(s)
        \/ \E start_dt \in Times, end_dt \in Times, project \in Projects :
             CreateBooking(s, start_dt, end_dt, project)

Spec == Init /\ [][Next]_vars

\* ------------------------------------------- page computations, fixed store
\* The read-only parts of a script run, applied to stores the program can have
\* built: the sidebar, the operator filter of Create Booking, the dashboard.

\* (variant) engaged robots counted once each
active_jobs_distinct_robots(ss, now) ==
    Cardinality({e.robot_id : e \in {x \in ss : x.start_time <= now /\ x.end_time >= now}})

\* SELECT count(*) FROM schedule WHERE start_time <= :now AND end_time >= :now
active_jobs(ss, now) ==
    Cardinality({e \in ss : e.start_time <= now /\ e.end_time >= now})

\* SELECT count(*) FROM robots
total_robots(rs) == Cardinality(rs)

\* datetime.now().strftime("%Y-%m-%d %H:%M:%S"): the clock reading, counted in
\* half seconds, cut down to its whole second
strftime(clock) == clock \div 2

StatusCenter(s, clock) ==
    /\ check_password(s)
    /\ LET now_str == strftime(clock)
           available_robots == total_robots(robots) - active_jobs(schedule, now_str)
       IN  out' = [op |-> "status", now |-> now_str,
                   total_robots |-> total_robots(robots),
                   active_jobs |-> active_jobs(schedule, now_str),
                   available_robots |-> available_robots,
                   sidebar |-> IF available_robots > 0 THEN "success" ELSE "error"]
    /\ UNCHANGED <<store, seqs, password_correct, run>>

\* Create Booking down to the operator filter: the model of the selected robot
\* and the operators offered for it
SelectRobot(s) ==
    /\ check_password(s)
    /\ robots # {}
    /\ \E picked \in robots : \E row \in FirstMatch(robots, picked.name) :
         out' = [op |-> "matcher", selected_robot_model |-> row.model,
                 valid_ops |-> valid_ops(operators, row.model)]
    /\ UNCHANGED <<store, seqs, password_correct, run>>

\* (variant) ORDER BY s.start_time ASC
ScheduleQuery_Ascending(rs, os, ss) ==
    LET rows == JoinRows(rs, os, ss)
    IN  {df \in [1..Cardinality(rows) -> rows] :
            /\ \A i, j \in DOMAIN df : i # j => df[i] # df[j]
            /\ \A i, j \in DOMAIN df : i < j => df[i].start_time <= df[j].start_time}

\* ... ORDER BY s.start_time DESC: the joined rows, latest start first; rows of
\* equal start_time come in any order
ScheduleQuery(rs, os, ss) ==
    LET rows == JoinRows(rs, os, ss)
    IN  {df \in [1..Cardinality(rows) -> rows] :
            /\ \A i, j \in DOMAIN df : i # j => df[i] # df[j]
            /\ \A i, j \in DOMAIN df : i < j => df[i].start_time >= df[j].start_time}

Dashboard(s) ==
    /\ check_password(s)
    /\ \E df \in ScheduleQuery(robots, operators, schedule) :
         out' = [op |-> "schedule", df |-> df]
    /\ UNCHANGED <<store, seqs, password_correct, run>>

\* Stores for the page computations.  Robot rows may be missing (deleted),
\* operator ids are contiguous (operators are never deleted).
RECURSIVE RobotTables(_, _, _)
RobotTables(n, names, models) ==
    IF n = 0 THEN {{}}
    ELSE {t \cup x : t \in RobotTables(n - 1, names, models),
                     x \in {{}} \cup {{[id |-> n, name |-> nm, model |-> m,
                                        status |-> "Available"]} :
                                      nm \in names, m \in models}}

RECURSIVE OperatorTables(_, _, _)
OperatorTables(n, names, skills) ==
    IF n = 0 THEN {{}}
    ELSE LET prev == OperatorTables(n - 1, names, skills)
         IN  prev \cup
             {t \cup {[id |-> n, name |-> nm, role |-> "Senior Engineer",
                       qualified_models |-> q]} :
                t \in {p \in prev : Cardinality(p) = n - 1},
                nm \in names, q \in skills}

RECURSIVE ScheduleTables(_, _, _)
ScheduleTables(n, rids, oids) ==
    IF n = 0 THEN {{}}
    ELSE {t \cup x : t \in ScheduleTables(n - 1, rids, oids),
                     x \in {{}} \cup
                           {{[id |-> n, robot_id |-> r, operator_id |-> o,
                              project_name |-> "SiteA", start_time |-> w[1],
                              end_time |-> w[2]]} :
                            r \in rids, o \in oids,
                            w \in {v \in Times \X Times : v[2] > v[1]}}}

MaxSkills == 2

FnQualifiedModels ==
    {join(<<",">>, sel) :
        sel \in {q \in UNION {[1..n -> FnSkillNames] : n \in 0..MaxSkills} :
                    \A i, j \in DOMAIN q : i # j => q[i] # q[j]}}

OneSession == [s \in Sessions |-> IF s = 1 THEN "True" ELSE "absent"]

\* rich robots and operators, nothing booked, one booking id left
InitMatcher ==
    /\ robots \in RobotTables(MaxRobots, {"Unit-01", "Unit-02"}, FnModelNames)
    /\ operators \in OperatorTables(MaxOperators, FnOperatorNames, FnQualifiedModels)
    /\ schedule = {}
    /\ robots_id_seq = MaxRobots
    /\ operators_id_seq = Cardinality(operators)
    /\ schedule_id_seq = MaxBookings - 1

\* one model, one operator trained on it, any bookings
InitStatus ==
    /\ robots \in RobotTables(MaxRobots, {"Unit-01"}, {<<"S">>})
    /\ operators = {[id |-> 1, name |-> "Alice", role |-> "Senior Engineer",
                     qualified_models |-> <<"S">>]}
    /\ schedule \in ScheduleTables(MaxBookings, Ids(robots), {1})
    /\ robots_id_seq = MaxRobots
    /\ operators_id_seq = 1
    /\ schedule_id_seq = MaxBookings

InitFn ==
    /\ InitMatcher \/ InitStatus
    /\ password_correct = OneSession
    /\ run = [s \in Sessions |-> Idle]
    /\ out = NoOut

NextFn ==
    \E s \in Sessions :
        \/ \E clock \in Clock : StatusCenter(s, clock)
        \/ SelectRobot(s)
        \/ Dashboard(s)

SpecFn == InitFn /\ [][NextFn]_vars

\* Create Booking alone, by one session, on the rich robots and operators
InitBooking ==
    /\ robots \in RobotTables(MaxRobots, {"Unit-01", "Unit-02"}, FnModelNames)
    /\ operators \in OperatorTables(MaxOperators, FnOperatorNames, {<<>>} \cup FnSkillNames)
    /\ schedule = {}
    /\ robots_id_seq = MaxRobots
    /\ operators_id_seq = Cardinality(operators)
    /\ schedule_id_seq = MaxBookings - 1
    /\ password_correct = OneSession
    /\ run = [s \in Sessions |-> Idle]
    /\ out = NoOut

NextBooking ==
    \E s \in Sessions :
        \/ RenderCreateBooking(s)
        \/ \E start_dt \in Times, end_dt \in Times, project \in Projects :
             CreateBooking(s, start_dt, end_dt, project)

SpecBooking == InitBooking /\ [][NextBooking]_vars

\* ------------------------------------------------------------------ claims
Writes == <<robots, operators, schedule, robots_id_seq, operators_id_seq, schedule_id_seq>>

\* C1: every Create Booking submit with end_time <= start_time is refused with
\* the invalid-interval message and changes no table; hence every schedule
\* entry of every reachable state has end_time > start_time.
C1_InvalidIntervalRejected ==
    /\ [](\A e \in schedule : e.end_time > e.start_time)
    /\ [][\A s \in Sessions, start_dt \in Times, end_dt \in Times, project \in Projects :
            (end_dt <= start_dt /\ CreateBooking(s, start_dt, end_dt, project))
                => (Writes' = Writes /\ run'[s].msg = MsgInvalidInterval)]_vars

C1_Witness ==
    \E s \in Sessions : run[s].msg = MsgInvalidInterval /\ run[s].pc = "done"

\* C2: a Delete Robot whose selected name belongs to a robot that some schedule
\* entry references is refused with the cannot-delete message and every row of
\* every table stays, also when another robot of that name is unreferenced.
C2_ReferencedRobotDeleteRejected ==
    [][\A s \in Sessions :
         (/\ DeleteRobot(s)
          /\ \E r \in robots : /\ r.name = run[s].r_to_del
                               /\ \E e \in schedule : e.robot_id = r.id)
            => (Writes' = Writes /\ run'[s].msg = MsgCannotDelete)]_vars

C2_Witness ==
    /\ \E s \in Sessions : run[s].msg = MsgCannotDelete
    /\ \E r1 \in robots, r2 \in robots :
         /\ r1.id # r2.id /\ r1.name = r2.name
         /\ \E e \in schedule : e.robot_id = r1.id
         /\ \A e \in schedule : e.robot_id # r2.id

\* C3: in every reachable state every schedule entry's robot_id is the id of a
\* robot row and its operator_id the id of an operator row.
C3_ReferentialIntegrity ==
    \A e \in schedule : e.robot_id \in Ids(robots) /\ e.operator_id \in Ids(operators)

C3_Witness ==
    /\ schedule # {}
    /\ Cardinality(robots) < robots_id_seq
    /\ \E s \in Sessions : run[s].msg = MsgInsertError

\* C4: every schedule entry a step creates names an operator that the
\* Qualification Matcher returns, on the tables at that step, for the model of
\* the robot whose id the entry carries; the booking form only ever names such
\* an operator, and when there is none the page shows the warning and no form.
C4_BookedOperatorQualified ==
    [][/\ \A e \in schedule' \ schedule :
            \E r \in robots, o \in operators :
               /\ r.id = e.robot_id
               /\ o.id = e.operator_id
               /\ o \in valid_ops(operators, r.model)
       /\ \A s \in Sessions :
            RenderCreateBooking(s) =>
               \/ run'[s].pc = "done" /\ run'[s].msg \in {MsgNoRobots, MsgNoOperators}
               \/ /\ run'[s].pc = "form"
                  /\ \E r \in robots :
                       /\ r.id = run'[s].robot_id
                       /\ run'[s].operator_id \in Ids(valid_ops(operators, r.model))]_vars

C4_Witness ==
    \E e \in schedule, r1 \in robots, r2 \in robots, o1 \in operators, o2 \in operators :
        /\ e.robot_id = r1.id /\ e.operator_id = o1.id
        /\ r2.id # r1.id /\ r2.name = r1.name /\ r2.model # r1.model
        /\ o2.id # o1.id /\ o2.name = o1.name
        /\ o2 \notin valid_ops(operators, r1.model)

\* C5: a step that changes a table or an id sequence is a write operation of a
\* session whose password_correct is True; while no session is authorized
\* nothing is written.
WriteBy(s) ==
    \/ \E r_name \in RobotNames, r_model \in ModelNames : AddRobot(s, r_name, r_model)
    \/ DeleteRobot(s)
    \/ \E o_name \in OperatorNames, o_role \in Roles :
         \E o_skills \in Selections(existing_models) :
           AddOperator(s, o_name, o_role, o_skills)
    \/ DeleteBooking(s)
    \/ \E start_dt \in Times, end_dt \in Times, project \in Projects :
         CreateBooking(s, start_dt, end_dt, project)

C5_OnlyAuthorizedSessionsWrite ==
    [][/\ \A s \in Sessions :
            (WriteBy(s) /\ Writes' # Writes) => password_correct[s] = "True"
       /\ (\A s \in Sessions : password_correct[s] # "True") => Writes' = Writes]_vars

C5_Witness ==
    /\ \E s \in Sessions : password_correct[s] = "False" /\ run[s] = Idle
    /\ schedule # {}

\* C6: the sidebar's engaged count for the instant T handed to the query is the
\* number of schedule entries with start_time <= T <= end_time, and available
\* is the robot count minus that number, below zero when the covering entries
\* outnumber the robots.
C6_AvailabilityCount ==
    out.op = "status" =>
        LET engaged == Cardinality({k \in 1..schedule_id_seq :
                            \E e \in schedule : /\ e.id = k
                                                /\ e.start_time <= out.now
                                                /\ out.now <= e.end_time})
        IN  /\ out.active_jobs = engaged
            /\ out.total_robots = Cardinality(Ids(robots))
            /\ out.available_robots = Cardinality(Ids(robots)) - engaged

C6_Witness ==
    /\ out.op = "status"
    /\ out.available_robots = -1
    /\ Cardinality(robots) = 1
    /\ \A e \in schedule : e.robot_id \in Ids(robots)

\* C7: for a robot without a model, or an empty roster, the Qualification
\* Matcher returns no operator.
C7_NoModelOrNoRosterGivesNobody ==
    (out.op = "matcher" /\ (out.selected_robot_model = <<>> \/ operators = {}))
        => out.valid_ops = {}

\* C8: the Qualification Matcher returns exactly the operators whose
\* comma-joined qualified_models has the robot's model as a contiguous,
\* case-sensitive run of characters.
C8_MatcherIsSubstringFilter ==
    out.op = "matcher" =>
        LET M == out.selected_robot_model
        IN  out.valid_ops =
              {o \in operators :
                 \E i \in 0..Len(o.qualified_models) :
                    /\ i + Len(M) <= Len(o.qualified_models)
                    /\ \A k \in 1..Len(M) : o.qualified_models[i + k] = M[k]}

C8_Witness ==
    /\ out.op = "matcher"
    /\ out.selected_robot_model = <<"S">>
    /\ \E o \in out.valid_ops : o.qualified_models = <<"S", "M">>
    /\ \E o \in operators \ out.valid_ops : o.qualified_models = <<"s">>

\* C9: a Delete Selected Booking whose id is no longer in the schedule table is
\* reported as NotFound and changes no table.
C9_MissingBookingReportedNotFound ==
    [][\A s \in Sessions :
         (DeleteBooking(s) /\ run[s].booking_id \notin Ids(schedule))
            => (run'[s].msg = "NotFound" /\ Writes' = Writes)]_vars

\* C10: in every reachable state the schedule query succeeds and each result
\* has exactly one row per schedule entry, with the names of the entry's robot
\* and operator, in descending start_time; it is empty for an empty schedule.
C10_ScheduleViewComplete ==
    LET dfs == ScheduleQuery(robots, operators, schedule)
    IN  /\ dfs # {}
        /\ \A df \in dfs :
             /\ Len(df) = Cardinality(schedule)
             /\ \A e \in schedule :
                  \E i \in DOMAIN df :
                     /\ df[i].id = e.id
                     /\ \E r \in robots : r.id = e.robot_id /\ df[i].robot = r.name
                     /\ \E o \in operators : o.id = e.operator_id /\ df[i].operator = o.name
                     /\ \A j \in DOMAIN df : j # i => df[j].id # e.id
             /\ \A i \in DOMAIN df : \A j \in DOMAIN df :
                  i < j => df[i].start_time >= df[j].start_time
             /\ schedule = {} => df = <<>>

C10_Witness ==
    \E e1 \in schedule, e2 \in schedule :
        /\ e1.start_time < e2.start_time
        /\ \E r1 \in robots, r2 \in robots :
             r1.id = e1.robot_id /\ r2.id = e2.robot_id /\ r1.name # r2.name

\* C11: two schedule queries with no write between them return the same rows
\* in the same order, also when entries share a start_time.
C11_RepeatedQuerySameResult ==
    [][(out.op = "schedule" /\ out'.op = "schedule" /\ Writes' = Writes)
          => out'.df = out.df]_vars

\* C12: an operator row, once created, is in the table unchanged in every
\* later state: no step removes or alters one.
C12_OperatorsAppendOnly ==
    [][/\ \A o \in operators : o \in operators'
       /\ \A a \in operators, b \in operators' : a.id = b.id => a = b]_vars

C12_Witness ==
    /\ Cardinality(operators) = 2
    /\ Cardinality(robots) < robots_id_seq
    /\ Cardinality(schedule) < schedule_id_seq
    /\ \E s \in Sessions : run[s].msg = MsgBookingDeleted

\* C13 as claimed: ids are unique within each table, a row keeps its id, no id
\* is given out twice, and a booking saved into an empty schedule gets id 1.
C13_UniqueIdsAndFirstIdOne ==
    /\ [](/\ \A a \in robots, b \in robots : a.id = b.id => a = b
          /\ \A a \in operators, b \in operators : a.id = b.id => a = b
          /\ \A a \in schedule, b \in schedule : a.id = b.id => a = b)
    /\ [][/\ \A x \in robots' \ robots : x.id > robots_id_seq
          /\ \A x \in operators' \ operators : x.id > operators_id_seq
          /\ \A x \in schedule' \ schedule : x.id > schedule_id_seq
          /\ \A x \in schedule' \ schedule : schedule = {} => x.id = 1]_vars

\* C13 as amended: ids are unique within each table and at most the last value
\* of the table's sequence, a row keeps its id, every new row gets an id above
\* every id given out before, and the booking saved by the first insert the
\* schedule ever saw gets id 1.
C13_UniqueIdsNeverReused ==
    /\ [](/\ \A a \in robots, b \in robots : a.id = b.id => a = b
          /\ \A a \in operators, b \in operators : a.id = b.id => a = b
          /\ \A a \in schedule, b \in schedule : a.id = b.id => a = b
          /\ Ids(robots) \subseteq 1..robots_id_seq
          /\ Ids(operators) \subseteq 1..operators_id_seq
          /\ Ids(schedule) \subseteq 1..schedule_id_seq)
    /\ [][/\ \A x \in robots' \ robots : x.id > robots_id_seq
          /\ \A x \in operators' \ operators : x.id > operators_id_seq
          /\ \A x \in schedule' \ schedule : x.id > schedule_id_seq
          /\ \A x \in schedule' \ schedule : schedule_id_seq = 0 => x.id = 1]_vars

C13_Witness ==
    /\ Ids(schedule) = {2}
    /\ \E s \in Sessions : run[s].msg = MsgSaved

\* C14: a Delete Robot that reports success has removed exactly one robot row
\* and left every other row of every table as it was.
C14_DeleteRemovesOneRobot ==
    [][\A s \in Sessions :
         (DeleteRobot(s) /\ run'[s].msg = MsgRobotDeleted)
            => /\ robots' \subseteq robots
               /\ Cardinality(robots \ robots') = 1
               /\ operators' = operators /\ schedule' = schedule]_vars

\* C15: a schedule entry leaves the table only by a Delete Selected Booking of
\* its own id, which removes that entry alone and touches no robot or operator;
\* an entry that stays keeps all its fields.
C15_EntriesOnlyDeletedById ==
    [][/\ \A e \in schedule \ schedule' :
            \E s \in Sessions :
               /\ DeleteBooking(s)
               /\ run[s].booking_id = e.id
               /\ schedule' = schedule \ {e}
               /\ robots' = robots /\ operators' = operators
       /\ \A a \in schedule, b \in schedule' : a.id = b.id => a = b]_vars

C15_Witness ==
    /\ \E s \in Sessions : run[s].msg = MsgBookingDeleted
    /\ Cardinality(schedule) = 1
    /\ schedule_id_seq = 2

\* C16: in every reachable state the qualified_models text of every schedule
\* entry's operator contains the model of the entry's robot.
C16_QualificationPreserved ==
    \A e \in schedule :
        \E r \in robots, o \in operators :
            /\ r.id = e.robot_id
            /\ o.id = e.operator_id
            /\ \E i \in 0..Len(o.qualified_models) :
                 /\ i + Len(r.model) <= Len(o.qualified_models)
                 /\ \A k \in 1..Len(r.model) : o.qualified_models[i + k] = r.model[k]

C16_Witness ==
    /\ schedule # {}
    /\ \E o \in operators : o.qualified_models = <<>>
    /\ Cardinality(robots) < robots_id_seq

\* C17: a submit with end after start, for a robot and an operator that exist,
\* is saved whatever the schedule already holds; two entries of one robot with
\* overlapping windows are reachable.
C17_OverlapAccepted ==
    [][\A s \in Sessions, start_dt \in Times, end_dt \in Times, project \in Projects :
         (/\ CreateBooking(s, start_dt, end_dt, project)
          /\ end_dt > start_dt
          /\ run[s].robot_id \in Ids(robots)
          /\ run[s].operator_id \in Ids(operators))
            => /\ run'[s].msg = MsgSaved
               /\ \E e \in schedule' \ schedule :
                    /\ e.robot_id = run[s].robot_id
                    /\ e.operator_id = run[s].operator_id
                    /\ e.start_time = start_dt /\ e.end_time = end_dt]_vars

C17_Witness ==
    \E a \in schedule, b \in schedule :
        /\ a.id # b.id
        /\ a.robot_id = b.robot_id /\ a.operator_id = b.operator_id
        /\ a.start_time < b.end_time /\ b.start_time < a.end_time

====
